---- MODULE Spec2Model ----
(***************************************************************************)
(* Lowering of the raw (grammar-shaped) syntax tree into the Expression IR *)
(* and the textual rendering of the IR: types/src/expression.rs.           *)
(*                                                                         *)
(* Raw syntax-tree nodes and IR nodes are records.  Every IR record has a  *)
(* field `tag` naming its variant.  Numeral text is a sequence of one-     *)
(* character strings so that parsing it is a computation; other text is a  *)
(* string.  A call that does not return is a record tagged "panic" (an     *)
(* expect/unimplemented that fired) or "stack overflow" (the recursion     *)
(* exhausted the thread's stack); such an outcome unwinds through every    *)
(* caller, as a Rust panic or abort does.                                  *)
(***************************************************************************)
EXTENDS Integers, Sequences, FiniteSets, TLC

VARIABLES input, kind, pc, result, text

vars == <<input, kind, pc, result, text>>

(***************************************************************************)
(* Bounds of the model.                                                    *)
(***************************************************************************)
\* nesting levels wrapped around a leaf when the inputs are enumerated
MaxDepth == 2
\* longest access list of an enumerated postfix chain or assignee
MaxAccesses == 3
\* number of nested calls the thread's stack holds
StackLimit == 24

(***************************************************************************)
(* Outcomes that are not an Expression.                                    *)
(***************************************************************************)
Panic(message) == [tag |-> "panic", message |-> message]

StackOverflow == [tag |-> "stack overflow"]

Failed(r) == r.tag \in {"panic", "stack overflow"}

AnyFailed(rs) == \E i \in DOMAIN rs : Failed(rs[i])

\* the failure that unwinds when a sequence is evaluated front to back
FirstFailed(rs) ==
    rs[CHOOSE i \in DOMAIN rs : Failed(rs[i]) /\ \A j \in 1..(i - 1) : ~Failed(rs[j])]

(***************************************************************************)
(* str::parse::<usize> and str::parse::<bool>.                             *)
(***************************************************************************)
Digits == <<"0", "1", "2", "3", "4", "5", "6", "7", "8", "9">>

IsDigit(c) == \E i \in DOMAIN Digits : Digits[i] = c

DigitValue(c) == (CHOOSE i \in DOMAIN Digits : Digits[i] = c) - 1

RECURSIVE DigitsValue(_)
DigitsValue(s) ==
    IF s = <<>> THEN 0
    ELSE 10 * DigitsValue(SubSeq(s, 1, Len(s) - 1)) + DigitValue(s[Len(s)])

\* an optional leading "+", then one or more decimal digits
ParseUsize(s) ==
    LET body == IF s # <<>> /\ Head(s) = "+" THEN Tail(s) ELSE s
    IN  IF body # <<>> /\ \A i \in DOMAIN body : IsDigit(body[i])
        THEN [tag |-> "Ok", usize |-> DigitsValue(body)]
        ELSE [tag |-> "Err"]

ParseBool(s) ==
    IF s = "true" THEN [tag |-> "Ok", bool |-> TRUE]
    ELSE IF s = "false" THEN [tag |-> "Ok", bool |-> FALSE]
    ELSE [tag |-> "Err"]

(***************************************************************************)
(* Expression::get_count                                                   *)
(***************************************************************************)
get_count_Defaulting(count) ==
    IF count.vk \in {"Integer", "Implicit"}
    THEN LET parsed == ParseUsize(count.number)
         IN  [tag |-> "count", count |-> IF parsed.tag = "Ok" THEN parsed.usize ELSE 0]
    ELSE [tag |-> "count", count |-> 0]

get_count(count) ==
    IF count.vk \in {"Integer", "Implicit"}
    THEN LET parsed == ParseUsize(count.number)
         IN  IF parsed.tag = "Ok"
             THEN [tag |-> "count", count |-> parsed.usize]
             ELSE Panic("Unable to read array size")
    ELSE Panic("Array size should be an integer")

(***************************************************************************)
(* Leaves.                                                                 *)
(***************************************************************************)
FromIdentifier(identifier) == [tag |-> "Identifier", name |-> identifier.name]

FromIntegerValue(field) ==
    [tag |-> "Integer", number |-> field.number, type |-> field.type]

FromFieldValue(field) == [tag |-> "Field", field |-> field.number]

FromGroupValue(group) == [tag |-> "Group", group |-> group.text]

FromNumberImplicitValue(number) == [tag |-> "Implicit", value |-> number.number]

FromBooleanValue_Defaulting(boolean) ==
    LET parsed == ParseBool(boolean.value)
    IN  [tag |-> "Boolean", bool |-> IF parsed.tag = "Ok" THEN parsed.bool ELSE FALSE]

FromBooleanValue(boolean) ==
    LET parsed == ParseBool(boolean.value)
    IN  IF parsed.tag = "Ok"
        THEN [tag |-> "Boolean", bool |-> parsed.bool]
        ELSE Panic("unable to parse boolean")

FromValue(value) ==
    CASE value.vk = "Integer" -> FromIntegerValue(value)
      [] value.vk = "Field" -> FromFieldValue(value)
      [] value.vk = "Group" -> FromGroupValue(value)
      [] value.vk = "Boolean" -> FromBooleanValue(value)
      [] value.vk = "Implicit" -> FromNumberImplicitValue(value)

(***************************************************************************)
(* Composite nodes.  `depth` is the number of frames already on the stack. *)
(***************************************************************************)
RECURSIVE FromAstExpression(_, _)
RECURSIVE FromNotExpression(_, _)
RECURSIVE FromBinaryExpression(_, _)
RECURSIVE FromTernaryExpression(_, _)
RECURSIVE FromArrayInlineExpression(_, _)
RECURSIVE FromArrayInitializerExpression(_, _)
RECURSIVE FromCircuitInlineExpression(_, _)
RECURSIVE FromPostfixExpression(_, _)
RECURSIVE FromAssignee(_, _)
RECURSIVE FromSpreadOrExpression(_, _)
RECURSIVE FromRangeOrExpression(_, _)
RECURSIVE FromOptionalBound(_, _)
RECURSIVE FromCircuitField(_, _)
RECURSIVE PostfixAccess(_, _, _)
RECURSIVE PostfixFold(_, _, _)
RECURSIVE AssigneeAccess(_, _, _)
RECURSIVE AssigneeFold(_, _, _)

\* a node of one child: the child's failure unwinds, else the node is built
Unary(tag, child) ==
    IF Failed(child) THEN child ELSE [tag |-> tag, expression |-> child]

\* a node of two children, evaluated left then right
Binary(tag, left, right) ==
    IF Failed(left) THEN left
    ELSE IF Failed(right) THEN right
    ELSE [tag |-> tag, left |-> left, right |-> right]

FromSpreadOrExpression(s_or_e, depth) ==
    IF depth >= StackLimit THEN StackOverflow
    ELSE Unary(IF s_or_e.spread THEN "Spread" ELSE "Expression",
               FromAstExpression(s_or_e.expression, depth + 1))

FromOptionalBound(bound, depth) ==
    IF bound.ok = "None" THEN [tag |-> "None"]
    ELSE Unary("Some", FromAstExpression(bound.expression, depth + 1))

FromRangeOrExpression(r_or_e, depth) ==
    IF depth >= StackLimit THEN StackOverflow
    ELSE IF r_or_e.rk = "Range"
    THEN LET from == FromOptionalBound(r_or_e.from, depth)
             to == FromOptionalBound(r_or_e.to, depth)
         IN  IF Failed(from) THEN from
             ELSE IF Failed(to) THEN to
             ELSE [tag |-> "Range", from |-> from, to |-> to]
    ELSE Unary("Expression", FromAstExpression(r_or_e.expression, depth + 1))

FromCircuitField(member, depth) ==
    IF depth >= StackLimit THEN StackOverflow
    ELSE LET expression == FromAstExpression(member.expression, depth + 1)
         IN  IF Failed(expression) THEN expression
             ELSE [tag |-> "CircuitFieldDefinition",
                   identifier |-> FromIdentifier(member.identifier),
                   expression |-> expression]

FromCircuitInlineExpression(expression, depth) ==
    IF depth >= StackLimit THEN StackOverflow
    ELSE LET members == [i \in DOMAIN expression.members |->
                            FromCircuitField(expression.members[i], depth + 1)]
         IN  IF AnyFailed(members) THEN FirstFailed(members)
             ELSE [tag |-> "Circuit",
                   var |-> FromIdentifier(expression.identifier),
                   members |-> members]

\* the variant built by each arm that lowers both operands
BinaryVariant(operation) ==
    CASE operation = "Or" -> "Or"
      [] operation = "And" -> "And"
      [] operation = "Eq" -> "Eq"
      [] operation = "Ge" -> "Ge"
      [] operation = "Gt" -> "Gt"
      [] operation = "Le" -> "Le"
      [] operation = "Lt" -> "Lt"
      [] operation = "Add" -> "Add"
      [] operation = "Sub" -> "Sub"
      [] operation = "Mul" -> "Mul"
      [] operation = "Div" -> "Div"
      [] operation = "Pow" -> "Pow"

FromBinaryExpression_Swapped(expression, depth) ==
    IF depth >= StackLimit THEN StackOverflow
    ELSE IF expression.operation = "Ne"
    THEN Unary("Not", FromBinaryExpression(expression, depth + 1))
    ELSE Binary(BinaryVariant(expression.operation),
                FromAstExpression(expression.right, depth + 1),
                FromAstExpression(expression.left, depth + 1))

\* the Ne arm hands the node itself, operation unchanged, to this function
FromBinaryExpression(expression, depth) ==
    IF depth >= StackLimit THEN StackOverflow
    ELSE IF expression.operation = "Ne"
    THEN Unary("Not", FromBinaryExpression(expression, depth + 1))
    ELSE Binary(BinaryVariant(expression.operation),
                FromAstExpression(expression.left, depth + 1),
                FromAstExpression(expression.right, depth + 1))

FromNotExpression(expression, depth) ==
    IF depth >= StackLimit THEN StackOverflow
    ELSE Unary("Not", FromAstExpression(expression.expression, depth + 1))

FromTernaryExpression(expression, depth) ==
    IF depth >= StackLimit THEN StackOverflow
    ELSE LET first == FromAstExpression(expression.first, depth + 1)
             second == FromAstExpression(expression.second, depth + 1)
             third == FromAstExpression(expression.third, depth + 1)
         IN  IF Failed(first) THEN first
             ELSE IF Failed(second) THEN second
             ELSE IF Failed(third) THEN third
             ELSE [tag |-> "IfElse", first |-> first, second |-> second, third |-> third]

FromArrayInlineExpression(array, depth) ==
    IF depth >= StackLimit THEN StackOverflow
    ELSE LET elements == [i \in DOMAIN array.expressions |->
                             FromSpreadOrExpression(array.expressions[i], depth + 1)]
         IN  IF AnyFailed(elements) THEN FirstFailed(elements)
             ELSE [tag |-> "Array", elements |-> elements]

FromArrayInitializerExpression_OneMore(array, depth) ==
    IF depth >= StackLimit THEN StackOverflow
    ELSE LET count == get_count(array.count)
         IN  IF Failed(count) THEN count
             ELSE LET expression ==
                          FromSpreadOrExpression(
                              [spread |-> FALSE, expression |-> array.expression], depth + 1)
                  IN  IF Failed(expression) THEN expression
                      ELSE [tag |-> "Array",
                            elements |-> [i \in 1..(count.count + 1) |-> expression]]

\* *array.expression is an expression, never a spread, when it is converted
FromArrayInitializerExpression(array, depth) ==
    IF depth >= StackLimit THEN StackOverflow
    ELSE LET count == get_count(array.count)
         IN  IF Failed(count) THEN count
             ELSE LET expression ==
                          FromSpreadOrExpression(
                              [spread |-> FALSE, expression |-> array.expression], depth + 1)
                  IN  IF Failed(expression) THEN expression
                      ELSE [tag |-> "Array",
                            elements |-> [i \in 1..count.count |-> expression]]

PostfixAccess_DroppingFailedArguments(acc, access, depth) ==
    CASE access.ak = "Array" ->
            LET index == FromRangeOrExpression(access.expression, depth + 1)
            IN  IF Failed(index) THEN index
                ELSE [tag |-> "ArrayAccess", array |-> acc, index |-> index]
      [] access.ak = "Call" ->
            LET arguments == [i \in DOMAIN access.expressions |->
                                 FromAstExpression(access.expressions[i], depth + 1)]
            IN  [tag |-> "FunctionCall", function |-> acc,
                 arguments |-> SelectSeq(arguments, LAMBDA r : ~Failed(r))]
      [] access.ak = "Object" ->
            [tag |-> "CircuitMemberAccess", circuit_name |-> acc,
             member |-> FromIdentifier(access.identifier)]
      [] access.ak = "StaticObject" ->
            [tag |-> "CircuitStaticFunctionAccess", circuit_name |-> acc,
             member |-> FromIdentifier(access.identifier)]

\* the closure folded over the accesses of a postfix expression
PostfixAccess(acc, access, depth) ==
    CASE access.ak = "Array" ->
            LET index == FromRangeOrExpression(access.expression, depth + 1)
            IN  IF Failed(index) THEN index
                ELSE [tag |-> "ArrayAccess", array |-> acc, index |-> index]
      [] access.ak = "Call" ->
            LET arguments == [i \in DOMAIN access.expressions |->
                                 FromAstExpression(access.expressions[i], depth + 1)]
            IN  IF AnyFailed(arguments) THEN FirstFailed(arguments)
                ELSE [tag |-> "FunctionCall", function |-> acc, arguments |-> arguments]
      [] access.ak = "Object" ->
            [tag |-> "CircuitMemberAccess", circuit_name |-> acc,
             member |-> FromIdentifier(access.identifier)]
      [] access.ak = "StaticObject" ->
            [tag |-> "CircuitStaticFunctionAccess", circuit_name |-> acc,
             member |-> FromIdentifier(access.identifier)]

PostfixFold_RightToLeft(acc, accesses, depth) ==
    IF accesses = <<>> THEN acc
    ELSE LET next == PostfixAccess(acc, accesses[Len(accesses)], depth + 1)
         IN  IF Failed(next) THEN next
             ELSE PostfixFold(next, SubSeq(accesses, 1, Len(accesses) - 1), depth)

\* Iterator::fold: the accesses front to back, the accumulator threaded through
PostfixFold(acc, accesses, depth) ==
    IF accesses = <<>> THEN acc
    ELSE LET next == PostfixAccess(acc, Head(accesses), depth + 1)
         IN  IF Failed(next) THEN next
             ELSE PostfixFold(next, Tail(accesses), depth)

FromPostfixExpression(expression, depth) ==
    IF depth >= StackLimit THEN StackOverflow
    ELSE PostfixFold(FromIdentifier(expression.identifier), expression.accesses, depth + 1)

AssigneeAccess_MemberAsStatic(acc, access, depth) ==
    CASE access.ak = "Member" ->
            [tag |-> "CircuitStaticFunctionAccess", circuit_name |-> acc,
             member |-> FromIdentifier(access.identifier)]
      [] access.ak = "Array" ->
            LET index == FromRangeOrExpression(access.expression, depth + 1)
            IN  IF Failed(index) THEN index
                ELSE [tag |-> "ArrayAccess", array |-> acc, index |-> index]

\* the closure folded over the accesses of an assignee
AssigneeAccess(acc, access, depth) ==
    CASE access.ak = "Member" ->
            [tag |-> "CircuitMemberAccess", circuit_name |-> acc,
             member |-> FromIdentifier(access.identifier)]
      [] access.ak = "Array" ->
            LET index == FromRangeOrExpression(access.expression, depth + 1)
            IN  IF Failed(index) THEN index
                ELSE [tag |-> "ArrayAccess", array |-> acc, index |-> index]

AssigneeFold(acc, accesses, depth) ==
    IF accesses = <<>> THEN acc
    ELSE LET next == AssigneeAccess(acc, Head(accesses), depth + 1)
         IN  IF Failed(next) THEN next
             ELSE AssigneeFold(next, Tail(accesses), depth)

FromAssignee(assignee, depth) ==
    IF depth >= StackLimit THEN StackOverflow
    ELSE AssigneeFold(FromIdentifier(assignee.identifier), assignee.accesses, depth + 1)

FromAstExpression(expression, depth) ==
    IF depth >= StackLimit THEN StackOverflow
    ELSE CASE expression.kind = "Value" -> FromValue(expression.value)
           [] expression.kind = "Identifier" -> FromIdentifier(expression)
           [] expression.kind = "Not" -> FromNotExpression(expression, depth + 1)
           [] expression.kind = "Binary" -> FromBinaryExpression(expression, depth + 1)
           [] expression.kind = "Ternary" -> FromTernaryExpression(expression, depth + 1)
           [] expression.kind = "ArrayInline" ->
                FromArrayInlineExpression(expression, depth + 1)
           [] expression.kind = "ArrayInitializer" ->
                FromArrayInitializerExpression(expression, depth + 1)
           [] expression.kind = "CircuitInline" ->
                FromCircuitInlineExpression(expression, depth + 1)
           [] expression.kind = "Postfix" -> FromPostfixExpression(expression, depth + 1)

(***************************************************************************)
(* fmt::Display for Expression.                                            *)
(***************************************************************************)
RECURSIVE Chars(_)
Chars(s) == IF s = <<>> THEN "" ELSE Head(s) \o Chars(Tail(s))

RECURSIVE Separated(_)
Separated(texts) ==
    IF texts = <<>> THEN ""
    ELSE IF Len(texts) = 1 THEN texts[1]
    ELSE Head(texts) \o ", " \o Separated(Tail(texts))

InfixFormat_PlusForSub(tag, left, right) ==
    CASE tag = "Add" -> left \o " + " \o right
      [] tag = "Sub" -> left \o " + " \o right
      [] tag = "Mul" -> left \o " * " \o right
      [] tag = "Div" -> left \o " / " \o right
      [] tag = "Pow" -> left \o " ** " \o right
      [] tag = "Or" -> left \o " || " \o right
      [] tag = "And" -> left \o " && " \o right
      [] tag = "Eq" -> left \o " == " \o right
      [] tag = "Ge" -> left \o " >= " \o right
      [] tag = "Gt" -> left \o " > " \o right
      [] tag = "Le" -> left \o " <= " \o right
      [] tag = "Lt" -> left \o " < " \o right

\* the format strings of the arms of two children
InfixFormat(tag, left, right) ==
    CASE tag = "Add" -> left \o " + " \o right
      [] tag = "Sub" -> left \o " - " \o right
      [] tag = "Mul" -> left \o " * " \o right
      [] tag = "Div" -> left \o " / " \o right
      [] tag = "Pow" -> left \o " ** " \o right
      [] tag = "Or" -> left \o " || " \o right
      [] tag = "And" -> left \o " && " \o right
      [] tag = "Eq" -> left \o " == " \o right
      [] tag = "Ge" -> left \o " >= " \o right
      [] tag = "Gt" -> left \o " > " \o right
      [] tag = "Le" -> left \o " <= " \o right
      [] tag = "Lt" -> left \o " < " \o right

InfixTags ==
    {"Add", "Sub", "Mul", "Div", "Pow", "Or", "And", "Eq", "Ge", "Gt", "Le", "Lt"}

DisplayIdentifier(identifier) == identifier.name

DisplayInteger(integer) == Chars(integer.number)

RECURSIVE Display(_)
RECURSIVE DisplaySpreadOrExpression(_)
RECURSIVE DisplayRangeOrExpression(_)
RECURSIVE DisplayOptionalBound(_)

DisplaySpreadOrExpression(s_or_e) ==
    IF s_or_e.tag = "Spread" THEN "..." \o Display(s_or_e.expression)
    ELSE Display(s_or_e.expression)

DisplayOptionalBound(bound) ==
    IF bound.tag = "None" THEN "" ELSE Display(bound.expression)

DisplayRangeOrExpression(r_or_e) ==
    IF r_or_e.tag = "Range"
    THEN DisplayOptionalBound(r_or_e.from) \o ".." \o DisplayOptionalBound(r_or_e.to)
    ELSE Display(r_or_e.expression)

Display(e) ==
    CASE e.tag = "Identifier" -> DisplayIdentifier(e)
      [] e.tag = "Integer" -> DisplayInteger(e)
      [] e.tag = "Field" -> Chars(e.field)
      [] e.tag = "Group" -> e.group
      [] e.tag = "Boolean" -> IF e.bool THEN "true" ELSE "false"
      [] e.tag = "Implicit" -> Chars(e.value)
      [] e.tag \in InfixTags -> InfixFormat(e.tag, Display(e.left), Display(e.right))
      [] e.tag = "Not" -> "!" \o Display(e.expression)
      [] e.tag = "IfElse" ->
            "if " \o Display(e.first) \o " then " \o Display(e.second)
                  \o " else " \o Display(e.third) \o " fi"
      [] e.tag = "Array" ->
            "[" \o Separated([i \in DOMAIN e.elements |->
                                 DisplaySpreadOrExpression(e.elements[i])]) \o "]"
      [] e.tag = "ArrayAccess" ->
            Display(e.array) \o "[" \o DisplayRangeOrExpression(e.index) \o "]"
      [] e.tag = "Circuit" ->
            DisplayIdentifier(e.var) \o " {"
                \o Separated([i \in DOMAIN e.members |->
                                 DisplayIdentifier(e.members[i].identifier) \o ": "
                                     \o Display(e.members[i].expression)])
                \o "}"
      [] e.tag = "CircuitMemberAccess" ->
            Display(e.circuit_name) \o "." \o DisplayIdentifier(e.member)
      [] e.tag = "CircuitStaticFunctionAccess" ->
            Display(e.circuit_name) \o "::" \o DisplayIdentifier(e.member)
      [] e.tag = "FunctionCall" ->
            Display(e.function) \o "("
                \o Separated([i \in DOMAIN e.arguments |-> Display(e.arguments[i])])
                \o ")"

(***************************************************************************)
(* The raw syntax tree handed over by the parser.                          *)
(***************************************************************************)
AstIdentifier(name) == [kind |-> "Identifier", name |-> name]

IntegerValue(number, type) ==
    [kind |-> "Value", value |-> [vk |-> "Integer", number |-> number, type |-> type]]

FieldValue(number) == [kind |-> "Value", value |-> [vk |-> "Field", number |-> number]]

GroupValue(group) == [kind |-> "Value", value |-> [vk |-> "Group", text |-> group]]

BooleanValue(value) == [kind |-> "Value", value |-> [vk |-> "Boolean", value |-> value]]

NumberImplicitValue(number) ==
    [kind |-> "Value", value |-> [vk |-> "Implicit", number |-> number]]

NotExpression(expression) == [kind |-> "Not", expression |-> expression]

BinaryExpression(operation, left, right) ==
    [kind |-> "Binary", operation |-> operation, left |-> left, right |-> right]

TernaryExpression(first, second, third) ==
    [kind |-> "Ternary", first |-> first, second |-> second, third |-> third]

AstSpreadOrExpression(spread, expression) ==
    [spread |-> spread, expression |-> expression]

ArrayInlineExpression(expressions) ==
    [kind |-> "ArrayInline", expressions |-> expressions]

ArrayInitializerExpression(expression, count) ==
    [kind |-> "ArrayInitializer", expression |-> expression, count |-> count.value]

CircuitInlineExpression(name, members) ==
    [kind |-> "CircuitInline", identifier |-> [name |-> name], members |-> members]

CircuitField(name, expression) ==
    [identifier |-> [name |-> name], expression |-> expression]

PostfixExpression(name, accesses) ==
    [kind |-> "Postfix", identifier |-> [name |-> name], accesses |-> accesses]

Assignee(name, accesses) == [identifier |-> [name |-> name], accesses |-> accesses]

AstExpressionIndex(expression) == [rk |-> "Expression", expression |-> expression]

NoBound == [ok |-> "None"]

SomeBound(expression) == [ok |-> "Some", expression |-> expression]

AstRange(from, to) == [rk |-> "Range", from |-> from, to |-> to]

ArrayAccess(r_or_e) == [ak |-> "Array", expression |-> r_or_e]

CallAccess(expressions) == [ak |-> "Call", expressions |-> expressions]

MemberAccess(name) == [ak |-> "Object", identifier |-> [name |-> name]]

StaticMemberAccess(name) == [ak |-> "StaticObject", identifier |-> [name |-> name]]

AssigneeMember(name) == [ak |-> "Member", identifier |-> [name |-> name]]

BinaryOperation ==
    {"Or", "And", "Eq", "Ne", "Ge", "Gt", "Le", "Lt", "Add", "Sub", "Mul", "Div", "Pow"}

(***************************************************************************)
(* The inputs the model lowers.                                            *)
(***************************************************************************)
NumeralTexts ==
    { <<"0">>, <<"3">>, <<"1", "2">>, <<"0", "3">>, <<"+", "2">>,
      <<"-", "1">>, <<>>, <<"x">>, <<"2", "x">> }

BooleanTexts == {"true", "false", "maybe", "True", ""}

X == AstIdentifier("x")

A == AstIdentifier("a")

Five == IntegerValue(<<"5">>, "u32")

Atoms ==
    { X, A, Five, BooleanValue("true"), BooleanValue("maybe"),
      NumberImplicitValue(<<"1">>), FieldValue(<<"7">>), GroupValue("(0, 1)group") }

\* the leaves the nested inputs are grown from
Seeds == {X, Five, BooleanValue("true"), BooleanValue("maybe"), NumberImplicitValue(<<"1">>)}

Counts ==
    {IntegerValue(n, "u32") : n \in NumeralTexts}
        \cup {NumberImplicitValue(n) : n \in NumeralTexts}
        \cup {BooleanValue("true"), FieldValue(<<"3">>), GroupValue("3group")}

\* every shape that has a sub-expression, around h
Wrap(h) ==
    {NotExpression(h)}
        \cup {BinaryExpression(op, h, A) : op \in {"Add", "Ne", "Lt"}}
        \cup {BinaryExpression(op, Five, h) : op \in {"Sub", "Ne"}}
        \cup {TernaryExpression(h, X, A), TernaryExpression(X, A, h)}
        \cup {ArrayInlineExpression(<<AstSpreadOrExpression(FALSE, h)>>),
              ArrayInlineExpression(<<AstSpreadOrExpression(TRUE, h),
                                      AstSpreadOrExpression(FALSE, X)>>)}
        \cup {ArrayInitializerExpression(h, NumberImplicitValue(<<"2">>)),
              ArrayInitializerExpression(h, BooleanValue("true"))}
        \cup {CircuitInlineExpression("Point", <<CircuitField("x", Five),
                                                 CircuitField("y", h)>>)}
        \cup {PostfixExpression("a", <<ArrayAccess(AstExpressionIndex(h))>>),
              PostfixExpression("a", <<ArrayAccess(AstRange(SomeBound(h), NoBound))>>),
              PostfixExpression("f", <<CallAccess(<<h, X>>)>>)}

RECURSIVE Trees(_)
Trees(d) ==
    IF d = 0 THEN Seeds
    ELSE LET inner == Trees(d - 1)
         IN  inner \cup UNION {Wrap(h) : h \in inner}

RECURSIVE SeqsUpTo(_, _)
SeqsUpTo(S, n) ==
    IF n = 0 THEN {<<>>}
    ELSE LET shorter == SeqsUpTo(S, n - 1)
         IN  shorter \cup {Append(s, e) : s \in shorter, e \in S}

Binaries == {BinaryExpression(op, l, r) : op \in BinaryOperation, l \in Atoms, r \in Atoms}

NestedBinaries ==
    {BinaryExpression(op, BinaryExpression(inner, X, A), Five) :
        op \in BinaryOperation, inner \in BinaryOperation}
        \cup {BinaryExpression(op, X, BinaryExpression(inner, A, Five)) :
                op \in BinaryOperation, inner \in BinaryOperation}

Accesses ==
    { ArrayAccess(AstExpressionIndex(NumberImplicitValue(<<"1">>))),
      CallAccess(<<NumberImplicitValue(<<"2">>)>>),
      MemberAccess("b"),
      StaticMemberAccess("c") }

Chains ==
    {PostfixExpression("a", accesses) : accesses \in SeqsUpTo(Accesses, MaxAccesses)}
        \cup {PostfixExpression("f", <<CallAccess(<<>>)>>),
              PostfixExpression("f", <<CallAccess(<<Five, X, A>>), CallAccess(<<A, X>>)>>)}

Initializers ==
    {ArrayInitializerExpression(e, c) :
        e \in {X, BooleanValue("maybe"), BinaryExpression("Add", X, Five),
               ArrayInlineExpression(<<AstSpreadOrExpression(TRUE, A)>>)},
        c \in Counts}

Literals ==
    {BooleanValue(t) : t \in BooleanTexts}
        \cup {ArrayInlineExpression(<<>>), CircuitInlineExpression("Empty", <<>>)}

Expressions ==
    Trees(MaxDepth) \cup Binaries \cup NestedBinaries \cup Chains
        \cup Initializers \cup Literals

AssigneeAccesses ==
    { AssigneeMember("b"),
      ArrayAccess(AstExpressionIndex(NumberImplicitValue(<<"1">>))),
      ArrayAccess(AstExpressionIndex(
          PostfixExpression("f", <<CallAccess(<<Five>>)>>))),
      ArrayAccess(AstRange(SomeBound(PostfixExpression("C", <<StaticMemberAccess("n")>>)),
                           NoBound)),
      ArrayAccess(AstExpressionIndex(BooleanValue("maybe"))) }

Assignees == {Assignee("a", accesses) : accesses \in SeqsUpTo(AssigneeAccesses, MaxAccesses)}

(***************************************************************************)
(* The state machine: one input, lowered once, then rendered.              *)
(***************************************************************************)
NoResult == [tag |-> "none"]

Init ==
    /\ \/ kind = "expression" /\ input \in Expressions
       \/ kind = "assignee" /\ input \in Assignees
       \/ kind = "count" /\ input \in {c.value : c \in Counts}
    /\ pc = "ready"
    /\ result = NoResult
    /\ text = ""

Finish(r) ==
    /\ result' = r
    /\ pc' = IF Failed(r) THEN "aborted" ELSE "returned"
    /\ UNCHANGED <<input, kind, text>>

\* Expression::from(AstExpression)
LowerExpression ==
    /\ pc = "ready"
    /\ kind = "expression"
    /\ Finish(FromAstExpression(input, 0))

\* Expression::from(Assignee)
LowerAssignee ==
    /\ pc = "ready"
    /\ kind = "assignee"
    /\ Finish(FromAssignee(input, 0))

\* Expression::get_count(count)
GetCount ==
    /\ pc = "ready"
    /\ kind = "count"
    /\ Finish(get_count(input))

\* format!("{}", expression)
Render ==
    /\ pc = "returned"
    /\ kind \in {"expression", "assignee"}
    /\ text' = Display(result)
    /\ pc' = "rendered"
    /\ UNCHANGED <<input, kind, result>>

Next == LowerExpression \/ LowerAssignee \/ GetCount \/ Render

Spec == Init /\ [][Next]_vars


(***************************************************************************)
(* Vocabulary of the properties.                                           *)
(***************************************************************************)
\* lowering returned an Expression (and it may have been rendered since)
Done == pc \in {"returned", "rendered"}

\* lowering was run, whatever came of it
Ran == pc # "ready"

Lower(e) == FromAstExpression(e, 0)

Identifier(name) == [tag |-> "Identifier", name |-> name]

\* the numeral texts that read as a non-negative integer, and the integer
CountOf(number) ==
    CASE number = <<"0">> -> 0
      [] number = <<"3">> -> 3
      [] number = <<"0", "3">> -> 3
      [] number = <<"+", "2">> -> 2
      [] number = <<"2">> -> 2
      [] number = <<"1", "2">> -> 12
      [] OTHER -> -1

GoodCount(count) == count.vk \in {"Integer", "Implicit"} /\ CountOf(count.number) >= 0

GoodBoolean(value) == value.vk = "Boolean" => value.value \in {"true", "false"}

RECURSIVE SubTrees(_)
RECURSIVE IndexTrees(_)
RECURSIVE AccessTrees(_)

\* every raw expression node of a raw expression, itself included
SubTrees(e) ==
    {e} \cup
    CASE e.kind \in {"Value", "Identifier"} -> {}
      [] e.kind = "Not" -> SubTrees(e.expression)
      [] e.kind = "Binary" -> SubTrees(e.left) \cup SubTrees(e.right)
      [] e.kind = "Ternary" ->
            SubTrees(e.first) \cup SubTrees(e.second) \cup SubTrees(e.third)
      [] e.kind = "ArrayInline" ->
            UNION {SubTrees(e.expressions[i].expression) : i \in DOMAIN e.expressions}
      [] e.kind = "ArrayInitializer" -> SubTrees(e.expression)
      [] e.kind = "CircuitInline" ->
            UNION {SubTrees(e.members[i].expression) : i \in DOMAIN e.members}
      [] e.kind = "Postfix" ->
            UNION {AccessTrees(e.accesses[i]) : i \in DOMAIN e.accesses}

IndexTrees(r_or_e) ==
    IF r_or_e.rk = "Range"
    THEN (IF r_or_e.from.ok = "Some" THEN SubTrees(r_or_e.from.expression) ELSE {})
            \cup (IF r_or_e.to.ok = "Some" THEN SubTrees(r_or_e.to.expression) ELSE {})
    ELSE SubTrees(r_or_e.expression)

AccessTrees(access) ==
    CASE access.ak = "Array" -> IndexTrees(access.expression)
      [] access.ak = "Call" ->
            UNION {SubTrees(access.expressions[i]) : i \in DOMAIN access.expressions}
      [] OTHER -> {}

\* the raw expression nodes of the current input
InputTrees ==
    CASE kind = "expression" -> SubTrees(input)
      [] kind = "assignee" ->
            UNION {AccessTrees(input.accesses[i]) : i \in DOMAIN input.accesses}
      [] OTHER -> {}

\* a literal the lowering rejects: boolean text or array count
Malformed(n) ==
    \/ n.kind = "Value" /\ ~GoodBoolean(n.value)
    \/ n.kind = "ArrayInitializer" /\ ~GoodCount(n.count)

RECURSIVE Nodes(_)
RECURSIVE IndexNodes(_)

\* every Expression node of an Expression, itself included
Nodes(e) ==
    {e} \cup
    CASE e.tag \in InfixTags -> Nodes(e.left) \cup Nodes(e.right)
      [] e.tag = "Not" -> Nodes(e.expression)
      [] e.tag = "IfElse" -> Nodes(e.first) \cup Nodes(e.second) \cup Nodes(e.third)
      [] e.tag = "Array" ->
            UNION {Nodes(e.elements[i].expression) : i \in DOMAIN e.elements}
      [] e.tag = "ArrayAccess" -> Nodes(e.array) \cup IndexNodes(e.index)
      [] e.tag = "Circuit" ->
            UNION {Nodes(e.members[i].expression) : i \in DOMAIN e.members}
      [] e.tag \in {"CircuitMemberAccess", "CircuitStaticFunctionAccess"} ->
            Nodes(e.circuit_name)
      [] e.tag = "FunctionCall" ->
            Nodes(e.function) \cup UNION {Nodes(e.arguments[i]) : i \in DOMAIN e.arguments}
      [] OTHER -> {}

IndexNodes(index) ==
    IF index.tag = "Range"
    THEN (IF index.from.tag = "Some" THEN Nodes(index.from.expression) ELSE {})
            \cup (IF index.to.tag = "Some" THEN Nodes(index.to.expression) ELSE {})
    ELSE Nodes(index.expression)

CallTags == {"FunctionCall", "CircuitStaticFunctionAccess"}

RECURSIVE Spine(_)
\* the result and its chain of first children, down to the base identifier
Spine(e) ==
    {e} \cup
    CASE e.tag = "ArrayAccess" -> Spine(e.array)
      [] e.tag \in {"CircuitMemberAccess", "CircuitStaticFunctionAccess"} ->
            Spine(e.circuit_name)
      [] e.tag = "FunctionCall" -> Spine(e.function)
      [] OTHER -> {}

(***************************************************************************)
(* C1.  Lowering a raw binary node with operation Ne and operands a, b     *)
(* returns Not(Eq(lower(a), lower(b))).  (Stated for operands that lower.) *)
(***************************************************************************)
C1_NeLowersToNotEq ==
    (/\ kind = "expression"
     /\ Ran
     /\ input.kind = "Binary"
     /\ input.operation = "Ne"
     /\ ~Failed(Lower(input.left))
     /\ ~Failed(Lower(input.right)))
        => result = [tag |-> "Not",
                     expression |-> [tag |-> "Eq",
                                     left |-> Lower(input.left),
                                     right |-> Lower(input.right)]]

(***************************************************************************)
(* C2.  Lowering is total over well-formed input: when every boolean       *)
(* literal of the tree is "true" or "false" and every array-initializer    *)
(* count is a parseable integer or implicit numeral, lowering returns an   *)
(* Expression.                                                             *)
(***************************************************************************)
WellFormed(e) == \A n \in SubTrees(e) : ~Malformed(n)

C2_LoweringTotal ==
    (kind = "expression" /\ Ran /\ WellFormed(input)) => (Done /\ ~Failed(result))

(***************************************************************************)
(* C3.  A postfix chain lowers to a strict left fold: no access gives      *)
(* Identifier(base); otherwise the last access decides the outermost       *)
(* variant, whose first child is the lowering of the chain without its     *)
(* last access, and a call's arguments are lowered in source order.        *)
(***************************************************************************)
LastVariant(access) ==
    CASE access.ak = "Array" -> "ArrayAccess"
      [] access.ak = "Call" -> "FunctionCall"
      [] access.ak = "Object" -> "CircuitMemberAccess"
      [] access.ak = "StaticObject" -> "CircuitStaticFunctionAccess"

FirstChild(e) ==
    CASE e.tag = "ArrayAccess" -> e.array
      [] e.tag = "FunctionCall" -> e.function
      [] e.tag \in {"CircuitMemberAccess", "CircuitStaticFunctionAccess"} -> e.circuit_name

\* a[1].b(2)
ExampleChain ==
    PostfixExpression("a",
        << ArrayAccess(AstExpressionIndex(NumberImplicitValue(<<"1">>))),
           MemberAccess("b"),
           CallAccess(<<NumberImplicitValue(<<"2">>)>>) >>)

ExampleChainLowered ==
    [tag |-> "FunctionCall",
     function |->
        [tag |-> "CircuitMemberAccess",
         circuit_name |->
            [tag |-> "ArrayAccess",
             array |-> Identifier("a"),
             index |-> [tag |-> "Expression",
                        expression |-> [tag |-> "Implicit", value |-> <<"1">>]]],
         member |-> Identifier("b")],
     arguments |-> << [tag |-> "Implicit", value |-> <<"2">>] >>]

C3_PostfixLeftFold ==
    (kind = "expression" /\ Done /\ input.kind = "Postfix") =>
        LET n == Len(input.accesses)
        IN  /\ n = 0 => result = Identifier(input.identifier.name)
            /\ n >= 1 =>
                LET last == input.accesses[n]
                    front == [input EXCEPT !.accesses = SubSeq(input.accesses, 1, n - 1)]
                IN  /\ result.tag = LastVariant(last)
                    /\ FirstChild(result) = Lower(front)
                    /\ last.ak = "Call" =>
                          result.arguments =
                              [i \in DOMAIN last.expressions |-> Lower(last.expressions[i])]
                    /\ last.ak \in {"Object", "StaticObject"} =>
                          result.member = Identifier(last.identifier.name)
            /\ input = ExampleChain => result = ExampleChainLowered

C3_Witness ==
    /\ kind = "expression"
    /\ Done
    /\ input = ExampleChain
    /\ result.tag = "FunctionCall"

(***************************************************************************)
(* C4.  An array initializer [x; N] whose count reads as the non-negative  *)
(* integer N (0 included) lowers to an Array of exactly N elements, each   *)
(* the non-spread lowered form of x.                                       *)
(***************************************************************************)
C4_InitializerExpansion ==
    (/\ kind = "expression"
     /\ Done
     /\ input.kind = "ArrayInitializer"
     /\ GoodCount(input.count)) =>
        /\ result.tag = "Array"
        /\ Len(result.elements) = CountOf(input.count.number)
        /\ \A i \in DOMAIN result.elements :
              result.elements[i] =
                  [tag |-> "Expression", expression |-> Lower(input.expression)]

C4_Witness ==
    /\ kind = "expression"
    /\ Done
    /\ input.kind = "ArrayInitializer"
    /\ input.expression.kind = "Binary"
    /\ result.tag = "Array"
    /\ Len(result.elements) = 3

C4_WitnessEmpty ==
    /\ kind = "expression"
    /\ Done
    /\ input.kind = "ArrayInitializer"
    /\ result = [tag |-> "Array", elements |-> <<>>]

(***************************************************************************)
(* C5 (as claimed).  Lowering an assignee never produces a FunctionCall or *)
(* CircuitStaticFunctionAccess node anywhere in the resulting Expression.  *)
(***************************************************************************)
C5_NoCallAnywhere ==
    (kind = "assignee" /\ Done) => \A n \in Nodes(result) : n.tag \notin CallTags

(***************************************************************************)
(* C5 (amended).  Lowering an assignee is a left fold over                 *)
(* Identifier(base): a member access wraps the accumulator in              *)
(* CircuitMemberAccess, an array-index access in ArrayAccess, so no node   *)
(* of the access spine is a FunctionCall or CircuitStaticFunctionAccess;   *)
(* such a node occurs only inside a lowered array index whose raw index    *)
(* expression holds a call or static-member access.                        *)
(***************************************************************************)
RECURSIVE AssigneeSpine(_, _)
AssigneeSpine(name, accesses) ==
    IF accesses = <<>> THEN Identifier(name)
    ELSE LET n == Len(accesses)
             last == accesses[n]
             front == AssigneeSpine(name, SubSeq(accesses, 1, n - 1))
         IN  IF last.ak = "Member"
             THEN [tag |-> "CircuitMemberAccess", circuit_name |-> front,
                   member |-> Identifier(last.identifier.name)]
             ELSE [tag |-> "ArrayAccess", array |-> front,
                   index |-> FromRangeOrExpression(last.expression, 0)]

RawCall(n) ==
    /\ n.kind = "Postfix"
    /\ \E i \in DOMAIN n.accesses : n.accesses[i].ak \in {"Call", "StaticObject"}

C5_AssigneeSpine ==
    (kind = "assignee" /\ Done) =>
        /\ result = AssigneeSpine(input.identifier.name, input.accesses)
        /\ \A n \in Spine(result) : n.tag \notin CallTags
        /\ (\E n \in Nodes(result) : n.tag \in CallTags)
              => \E t \in InputTrees : RawCall(t)

C5_Witness ==
    /\ kind = "assignee"
    /\ Done
    /\ Len(input.accesses) = 3
    /\ result.tag = "CircuitMemberAccess"
    /\ result.circuit_name.tag = "ArrayAccess"
    /\ \E n \in Nodes(result) : n.tag = "FunctionCall"

(***************************************************************************)
(* C6.  An array initializer whose count is not an integer or implicit     *)
(* numeral, or whose numeral text does not read as a non-negative integer, *)
(* fails fatally: no Array is produced and no length is defaulted.  For an *)
(* integer or implicit count with readable text get_count returns exactly  *)
(* that number.                                                            *)
(***************************************************************************)
C6_CountRejectedOrExact ==
    /\ (kind = "expression" /\ Ran /\ input.kind = "ArrayInitializer"
            /\ ~GoodCount(input.count))
          => (pc = "aborted" /\ result.tag = "panic")
    /\ (kind = "count" /\ Ran) =>
          IF GoodCount(input)
          THEN pc = "returned" /\ result = [tag |-> "count", count |-> CountOf(input.number)]
          ELSE pc = "aborted" /\ result.tag = "panic"

C6_Witness ==
    /\ kind = "expression"
    /\ input.kind = "ArrayInitializer"
    /\ input.count.vk = "Boolean"
    /\ pc = "aborted"

C6_WitnessExact ==
    /\ kind = "count"
    /\ pc = "returned"
    /\ result.count = 12

(***************************************************************************)
(* C7.  A boolean literal lowers to Boolean(true) for the text "true", to  *)
(* Boolean(false) for "false", and fails fatally for any other text.       *)
(***************************************************************************)
C7_BooleanLiteral ==
    (kind = "expression" /\ Ran /\ input.kind = "Value" /\ input.value.vk = "Boolean") =>
        CASE input.value.value = "true" ->
                Done /\ result = [tag |-> "Boolean", bool |-> TRUE]
          [] input.value.value = "false" ->
                Done /\ result = [tag |-> "Boolean", bool |-> FALSE]
          [] OTHER -> pc = "aborted" /\ result.tag = "panic"

C7_Witness ==
    /\ kind = "expression"
    /\ input = BooleanValue("maybe")
    /\ pc = "aborted"

C7_WitnessTrue ==
    /\ kind = "expression"
    /\ input = BooleanValue("true")
    /\ pc = "returned"

(***************************************************************************)
(* C8.  A binary Expression renders as its left child's text, a space, the *)
(* infix symbol of its variant, a space, and its right child's text, with  *)
(* no brackets added; Add(Identifier(x), Integer(5,u32)) renders as x + 5. *)
(***************************************************************************)
InfixSymbol(tag) ==
    CASE tag = "Add" -> "+"
      [] tag = "Sub" -> "-"
      [] tag = "Mul" -> "*"
      [] tag = "Div" -> "/"
      [] tag = "Pow" -> "**"
      [] tag = "Or" -> "||"
      [] tag = "And" -> "&&"
      [] tag = "Eq" -> "=="
      [] tag = "Ge" -> ">="
      [] tag = "Gt" -> ">"
      [] tag = "Le" -> "<="
      [] tag = "Lt" -> "<"

C8_InfixRendering ==
    (pc = "rendered" /\ result.tag \in InfixTags) =>
        /\ text = Display(result.left) \o " " \o InfixSymbol(result.tag) \o " "
                      \o Display(result.right)
        /\ input = BinaryExpression("Add", X, Five) => text = "x + 5"
        /\ input = BinaryExpression("Mul", BinaryExpression("Add", X, A), Five)
              => text = "x + a * 5"
        /\ input = BinaryExpression("Sub", X, BinaryExpression("Sub", A, Five))
              => text = "x - a - 5"

C8_Witness ==
    /\ pc = "rendered"
    /\ input = BinaryExpression("Add", X, Five)
    /\ text = "x + 5"

(***************************************************************************)
(* C9.  A raw binary node whose operation is one of Or, And, Eq, Ge, Gt,   *)
(* Le, Lt, Add, Sub, Mul, Div, Pow lowers to the variant of the same name, *)
(* first child the lowered left operand, second child the lowered right    *)
(* operand; nothing is swapped or reassociated.                            *)
(***************************************************************************)
C9_BinaryOneToOne ==
    (/\ kind = "expression"
     /\ Done
     /\ input.kind = "Binary"
     /\ input.operation \in BinaryOperation \ {"Ne"}) =>
        result = [tag |-> input.operation,
                  left |-> Lower(input.left),
                  right |-> Lower(input.right)]

C9_Witness ==
    /\ kind = "expression"
    /\ Done
    /\ input = BinaryExpression("Sub", BinaryExpression("Div", X, A), Five)
    /\ result.tag = "Sub"
    /\ result.left.tag = "Div"
    /\ result.right.tag = "Integer"

(***************************************************************************)
(* C10.  A malformed boolean text or a bad array count at any nesting      *)
(* depth makes the whole lowering fail: no Expression is returned, partial *)
(* or default-filled, and nothing is rendered.                             *)
(***************************************************************************)
C10_FailurePropagates ==
    (kind \in {"expression", "assignee"} /\ Ran /\ \E n \in InputTrees : Malformed(n)) =>
        /\ pc = "aborted"
        /\ Failed(result)
        /\ text = ""

C10_Witness ==
    /\ kind = "expression"
    /\ pc = "aborted"
    /\ input.kind = "Postfix"
    /\ Len(input.accesses) = 1
    /\ input.accesses[1].ak = "Call"
    /\ input.accesses[1].expressions[1].kind = "Ternary"
    /\ Malformed(input.accesses[1].expressions[1].third)
====
